---- MODULE Spec2Model ----
(***************************************************************************)
(* Model of the BarcodeScanner class of @coditoscannerito/core (the        *)
(* scanner source printed in src/README.md, lines 339-627): the camera     *)
(* session, the self-rescheduling scan loop, stop, switchCamera and        *)
(* scanImage, as the JavaScript event loop runs them.  One action is one   *)
(* run-to-completion piece of code between two suspension points (await,   *)
(* timer, DOM event).                                                      *)
(***************************************************************************)
EXTENDS Integers, FiniteSets, Sequences, TLC

\* ---------------------------------------------------------------- bounds
\* number of start()/switchCamera() calls that get past the precondition
MaxStarts == 2
\* number of scanImage() calls
MaxImages == 1
\* number of devices enumerateDevices() reports
MaxDevices == 2
\* length of the texts the engine decodes, drawn from Alphabet
MaxLen == 3

\* SpecSwitch follows one call more
StreamIds == 1..(MaxStarts + 1)
LoopIds == 1..MaxStarts
ImageIds == 1..MaxImages
\* deviceId values a caller passes to switchCamera
DeviceIds == {"camA", "camB"}

\* values getUserMedia() can reject with; "nonError" is a rejection value
\* that is not an instance of Error
GumRejections == {"NotAllowedError", "NotFoundError", "OverconstrainedError", "nonError"}
\* how decodeFromImageUrl() fails to give a result
MissKinds == {"NotFoundException", "engineError", "falsy"}
\* what enumerateDevices() can report: MediaDeviceInfo records, strings being
\* sequences of characters
DeviceInfos ==
  { [deviceId |-> <<"m", "1">>, kind |-> "audioinput", label |-> <<"M", "i", "c">>],
    [deviceId |-> <<"s", "1">>, kind |-> "audiooutput", label |-> <<>>],
    [deviceId |-> <<"a", "1", "b", "2", "c", "3", "d">>, kind |-> "videoinput",
     label |-> <<>>],
    [deviceId |-> <<"f", "9">>, kind |-> "videoinput",
     label |-> <<"F", "r", "o", "n", "t", " ", "C", "a", "m">>] }
\* the lists enumerateDevices() resolves with
Enumerations == UNION { [1..n -> DeviceInfos] : n \in 0..MaxDevices }
\* how the enumeration fails
EnumerateFailures == {"rejects", "noMediaDevices"}
\* Texts are sequences of UTF-16 code units.  The alphabet the decoded texts are
\* drawn from: ']', 'A', '1', NUL, space and '-'
Alphabet == {93, 65, 49, 0, 32, 45}
\* "]C1\x00ABC123 " and "ABC123"
ExampleDirty == <<93, 67, 49, 0, 65, 66, 67, 49, 50, 51, 32>>
ExampleClean == <<65, 66, 67, 49, 50, 51>>
\* the texts result.getText() gives
RawTexts ==
  UNION { [1..n -> Alphabet] : n \in 0..MaxLen } \cup {ExampleDirty, ExampleClean}
\* values of options.targetBoxWidth and targetBoxHeight, in percent (0: the
\* option is not set, or is set to 0), and sizes of the video frame, in pixels
TargetPercents == {0, 1, 33, 50, 70, 100}
FrameWidths == {640, 1000, 1279}
FrameHeights == {480, 720, 800}
\* values videoElement.play() can reject with
PlayRejections == {"AbortError", "nonError"}

VARIABLES
  isScanning,    \* this.isScanning
  videoElement,  \* this.videoElement: 0 = null, 1 = the caller's <video>
  srcObject,     \* the <video>'s srcObject: 0 = null, else a stream id
  stream,        \* this.stream: 0 = null, else a stream id
  scanInterval,  \* this.scanInterval: 0 = null, else the loop whose timer was set last
  deviceId,      \* this.options.constraints.deviceId.exact ("" = not set)
  tracks,        \* stream id -> "none" | "live" | "stopped"
  loops,         \* loop id -> position of that startScanLoop closure
  gumCalls,      \* number of getUserMedia() requests made so far
  startPc,       \* position of the pending start()/switchCamera() call
  hasOnError,    \* whether the pending/last start was given an onError callback
  onErrorCalls,  \* number of onError invocations made for the pending/last start
  images,        \* image id -> position of that scanImage() call
  imgSettles,    \* image id -> number of resolve()/reject() calls made for it
  callDevice,    \* the deviceId argument of the pending call ("": start(), or none)
  lastRequest,   \* the deviceId constraint of the last getUserMedia() request
  timerDelay,    \* the delay, in ms, the last retry timer was armed with (0: none yet)
  listPc,        \* "idle" | "pending": the listCameras() call being followed
  callBudget,    \* how many calls past start()'s precondition the run follows
  delivered,     \* the loops that have invoked their onScan callback
  hookIsScanning, \* useBarcodeScanner: the isScanning state of the hook
  hookPc,        \* "idle" | "start" | "switch": the hook call pending
  autoStart,     \* options.autoStart as last rendered
  lastCmd,       \* "none" | "autoOn" | "autoOff" | "call": what the component did last
  raced,         \* TRUE iff stop() ran while the last start() was pending
  ev             \* the step taken last: [op, id, res]

vars == <<isScanning, videoElement, srcObject, stream, scanInterval, deviceId,
          tracks, loops, gumCalls, startPc, hasOnError, onErrorCalls,
          images, imgSettles, callDevice, lastRequest, timerDelay, listPc,
          callBudget, delivered, hookIsScanning, hookPc, autoStart, lastCmd,
          raced, ev>>

session == <<isScanning, videoElement, srcObject, stream, scanInterval, tracks>>
callVars == <<startPc, hasOnError, onErrorCalls>>
imgVars == <<images, imgSettles>>
reqVars == <<callDevice, lastRequest>>
hookVars == <<hookIsScanning, hookPc, autoStart, lastCmd>>
aux == <<callDevice, lastRequest, timerDelay, listPc, callBudget, delivered, raced,
         hookVars>>

Ev(op, id, res) == [op |-> op, id |-> id, res |-> res]

\* ---------------------------------------------------------------- helpers
nStreams == Cardinality({s \in StreamIds : tracks[s] # "none"})
nLoops == Cardinality({l \in LoopIds : loops[l] # "none"})
nImages == Cardinality({i \in ImageIds : images[i] # "none"})

\* decode submissions of the scanning loops that the engine has not answered
LoopDecodes == {l \in LoopIds : loops[l] = "decoding"}
\* decode submissions of scanImage() that the engine has not answered
ImageDecodes == {i \in ImageIds : images[i] = "decoding"}
\* setTimeout timers armed by a loop and neither fired nor cleared
PendingTimers == {l \in LoopIds : loops[l] = "timer"}

\* the calls the model follows: a start that gets past the precondition needs a
\* stream id and a loop id left
CanStart == gumCalls < callBudget /\ nLoops < MaxStarts

\* start() without its precondition test
AlreadyRunningUnchecked == FALSE

\* start(): if (this.isScanning) throw new Error('Scanner is already running')
AlreadyRunning == isScanning

\* a catch that wraps whatever was thrown in the generic error
ToErrorGeneric(e) == "Failed to start"

\* start(), catch: error instanceof Error ? error : new Error('Failed to start')
ToError(e) == IF e = "nonError" THEN "Failed to start" ELSE e

\* options.fps of the instance (the default) and scanIntervalMs = 1000 / fps
Fps == 10
ScanIntervalMs == 1000 \div Fps

\* scan(): if (!this.isScanning || !this.videoElement) return
StepGuard(scanning, element) == scanning /\ element # 0

\* a step that re-arms its timer without looking at the flag
ShouldRescheduleAlways == TRUE

\* a step that never arms a retry timer
ShouldRescheduleNever == FALSE

\* scan(), after the try/catch: if (this.isScanning) setTimeout(scan, ...)
ShouldReschedule == isScanning

\* clearTimeout(h) on the timers: a handle whose timer already fired is ignored
ClearTimeout(h, ls) ==
  IF h # 0 /\ ls[h] = "timer" THEN [ls EXCEPT ![h] = "cancelled"] ELSE ls

\* the statements of stop(), as the values they leave
StopTracks(s, ts) == IF s # 0 THEN [ts EXCEPT ![s] = "stopped"] ELSE ts
StopSrcObject(element, src) == IF element # 0 THEN 0 ELSE src
\* stop() ends with this.reader.reset(): what the engine is doing at that moment
ResetKind == IF LoopDecodes # {} \/ ImageDecodes # {} THEN "resetDuringDecode" ELSE "reset"

TypeOK ==
  /\ isScanning \in BOOLEAN
  /\ videoElement \in {0, 1}
  /\ srcObject \in {0} \cup StreamIds
  /\ stream \in {0} \cup StreamIds
  /\ scanInterval \in {0} \cup LoopIds
  /\ deviceId \in {""} \cup DeviceIds
  /\ tracks \in [StreamIds -> {"none", "live", "stopped"}]
  /\ loops \in [LoopIds -> {"none", "decoding", "timer", "hit", "ended", "cancelled"}]
  /\ gumCalls \in 0..(MaxStarts + 1)
  /\ callBudget \in {MaxStarts, MaxStarts + 1}
  /\ delivered \subseteq LoopIds
  /\ hookIsScanning \in BOOLEAN
  /\ hookPc \in {"idle", "start", "switch"}
  /\ autoStart \in BOOLEAN
  /\ lastCmd \in {"none", "autoOn", "autoOff", "call"}
  /\ startPc \in {"idle", "switching", "acquiring", "waitReady", "playing"}
  /\ hasOnError \in BOOLEAN
  /\ onErrorCalls \in 0..2
  /\ images \in [ImageIds -> {"none", "reading", "decoding", "resolved", "rejected"}]
  /\ imgSettles \in [ImageIds -> 0..2]
  /\ callDevice \in {""} \cup DeviceIds
  /\ lastRequest \in {""} \cup DeviceIds
  /\ timerDelay \in {0, ScanIntervalMs}
  /\ listPc \in {"idle", "pending"}
  /\ raced \in BOOLEAN

\* ---------------------------------------------------------------- Init
\* the state after construction, in a run that follows budget calls
InitWith(budget) ==
  /\ isScanning = FALSE
  /\ videoElement = 0
  /\ srcObject = 0
  /\ stream = 0
  /\ scanInterval = 0
  /\ deviceId = ""
  /\ tracks = [s \in StreamIds |-> "none"]
  /\ loops = [l \in LoopIds |-> "none"]
  /\ gumCalls = 0
  /\ startPc = "idle"
  /\ hasOnError = FALSE
  /\ onErrorCalls = 0
  /\ images = [i \in ImageIds |-> "none"]
  /\ imgSettles = [i \in ImageIds |-> 0]
  /\ callDevice = ""
  /\ lastRequest = ""
  /\ timerDelay = 0
  /\ listPc = "idle"
  /\ callBudget = budget
  /\ delivered = {}
  /\ hookIsScanning = FALSE
  /\ hookPc = "idle"
  /\ autoStart = FALSE
  /\ lastCmd = "none"
  /\ raced = FALSE
  /\ ev = Ev("init", 0, "")

Init == InitWith(MaxStarts)

\* ---------------------------------------------------------------- start()
\* The body of start() from the precondition to the getUserMedia() await.
\* cb: whether the caller passed an onError callback; dev: the deviceId the
\* call was made for ("" for start()); opts: options.constraints.deviceId as the
\* constraints object is built from it.
StartPrefix(cb, op, dev, opts) ==
  /\ hasOnError' = cb
  /\ onErrorCalls' = 0
  /\ IF AlreadyRunning
       THEN /\ startPc' = "idle"
            /\ callDevice' = ""
            /\ ev' = Ev(op, 0, "Scanner is already running")
            /\ UNCHANGED <<videoElement, gumCalls, lastRequest>>
       ELSE /\ CanStart
            /\ videoElement' = 1
            /\ gumCalls' = gumCalls + 1
            /\ lastRequest' = opts
            /\ callDevice' = dev
            /\ startPc' = "acquiring"
            /\ ev' = Ev(op, 0, "")

\* A caller that awaits every call invokes start() only when no call is pending.
StartCall(cb) ==
  /\ startPc = "idle"
  /\ StartPrefix(cb, "start", "", deviceId)
  /\ raced' = FALSE
  /\ UNCHANGED <<isScanning, srcObject, stream, scanInterval, deviceId, tracks,
                 loops, imgVars, timerDelay, listPc, callBudget, hookVars, delivered>>

\* The catch block of start(): onError?.(err); throw err.
StartFails(op, id, e) ==
  /\ onErrorCalls' = IF hasOnError THEN onErrorCalls + 1 ELSE onErrorCalls
  /\ startPc' = "idle"
  /\ ev' = Ev(op, id, ToError(e))
  /\ callDevice' = ""
  /\ UNCHANGED <<isScanning, videoElement, srcObject, stream, scanInterval, deviceId,
                 tracks, loops, gumCalls, hasOnError, imgVars, lastRequest,
                 timerDelay, listPc, callBudget, hookVars, delivered, raced>>

\* getUserMedia() resolves: the stream is stored and attached, and the wait for
\* the video's metadata begins (ready: readyState >= HAVE_METADATA already, so
\* handleReady runs at once and play() is called).
AcquireOk(ready) ==
  /\ startPc = "acquiring"
  /\ LET s == nStreams + 1 IN
       /\ tracks' = [tracks EXCEPT ![s] = "live"]
       /\ stream' = s
       /\ srcObject' = s
       /\ ev' = Ev("acquired", s, "")
  /\ startPc' = IF ready THEN "playing" ELSE "waitReady"
  /\ UNCHANGED <<isScanning, videoElement, scanInterval, deviceId, loops, gumCalls,
                 hasOnError, onErrorCalls, imgVars, aux>>

\* getUserMedia() rejects.
AcquireFail(e) ==
  /\ startPc = "acquiring"
  /\ StartFails("acquireFail", 0, e)

\* 'loadedmetadata' fires: handleReady clears the timeout and calls play().
LoadedMetadata ==
  /\ startPc = "waitReady"
  /\ startPc' = "playing"
  /\ ev' = Ev("loadedmetadata", stream, "")
  /\ UNCHANGED <<session, deviceId, loops, gumCalls,
                 hasOnError, onErrorCalls, imgVars, aux>>

\* The 10 s timer fires first: reject(new Error('Video timeout')).
VideoTimeout ==
  /\ startPc = "waitReady"
  /\ StartFails("timeout", stream, "Video timeout")

\* play() rejects.
PlayFail(e) ==
  /\ startPc = "playing"
  /\ StartFails("playFail", stream, e)

\* play() resolves: the canvas is sized, isScanning is set and startScanLoop()
\* runs the first scan() step synchronously.
PlayOk ==
  /\ startPc = "playing"
  /\ isScanning' = TRUE
  /\ LET l == nLoops + 1 IN
       /\ loops' = [loops EXCEPT ![l] =
                      IF StepGuard(TRUE, videoElement) THEN "decoding" ELSE "ended"]
       /\ ev' = Ev("started", l, callDevice)
  /\ startPc' = "idle"
  /\ callDevice' = ""
  /\ UNCHANGED <<videoElement, srcObject, stream, scanInterval, deviceId, tracks,
                 gumCalls, hasOnError, onErrorCalls, imgVars, lastRequest,
                 timerDelay, listPc, callBudget, hookVars, delivered, raced>>

\* ---------------------------------------------------------------- the scan loop
\* The part of scan() after the try/catch, reached on a miss, on an engine
\* exception and on an exception thrown by onScan.
Reschedule(l) ==
  IF ShouldReschedule
    THEN /\ loops' = [loops EXCEPT ![l] = "timer"]
         /\ scanInterval' = l
         /\ timerDelay' = ScanIntervalMs
    ELSE /\ loops' = [loops EXCEPT ![l] = "ended"]
         /\ UNCHANGED <<scanInterval, timerDelay>>

\* The retry timer of loop l fires: scan() runs up to the decode await.
TimerFire(l) ==
  /\ loops[l] = "timer"
  /\ startPc # "switching"
  /\ loops' = [loops EXCEPT ![l] =
                 IF StepGuard(isScanning, videoElement) THEN "decoding" ELSE "ended"]
  /\ ev' = Ev("timerFire", l, "")
  /\ UNCHANGED <<isScanning, videoElement, srcObject, stream, scanInterval, deviceId,
                 tracks, gumCalls, callVars, imgVars, aux>>

\* a loop that ends the session itself when it has delivered a result
DecodeHitAutoStop(l, throws) ==
  /\ loops[l] = "decoding"
  /\ isScanning' = FALSE
  /\ loops' = [loops EXCEPT ![l] = "hit"]
  /\ ev' = Ev("decodeHit", l, IF throws THEN "onScanThrew" ELSE "")
  /\ UNCHANGED <<videoElement, srcObject, stream, scanInterval, deviceId, tracks,
                 gumCalls, callVars, imgVars, aux>>

\* decodeFromImageUrl() resolves with a result: onScan is invoked; if it returns
\* the step returns, if it throws the catch swallows the exception and the step
\* goes on to the reschedule test.
DecodeHit(l, throws) ==
  /\ loops[l] = "decoding"
  /\ IF throws
       THEN Reschedule(l)
       ELSE /\ loops' = [loops EXCEPT ![l] = "hit"]
            /\ UNCHANGED <<scanInterval, timerDelay>>
  /\ delivered' = delivered \cup {l}
  /\ ev' = Ev("decodeHit", l, IF throws THEN "onScanThrew" ELSE "")
  /\ UNCHANGED <<isScanning, videoElement, srcObject, stream, deviceId, tracks,
                 gumCalls, callVars, imgVars, reqVars, listPc, callBudget, hookVars, raced>>

\* A loop step whose catch block reports the failure to the caller's onError.
DecodeMissSurfaced(l, kind) ==
  /\ loops[l] = "decoding"
  /\ Reschedule(l)
  /\ onErrorCalls' = IF hasOnError /\ kind # "falsy" THEN onErrorCalls + 1
                                                     ELSE onErrorCalls
  /\ ev' = Ev("decodeMiss", l, kind)
  /\ UNCHANGED <<isScanning, videoElement, srcObject, stream, deviceId, tracks,
                 gumCalls, startPc, hasOnError, imgVars, reqVars, listPc, callBudget, hookVars, delivered, raced>>

\* decodeFromImageUrl() rejects (kind: NotFoundException, or any other engine
\* error) or resolves with a falsy result: the catch is empty, the step goes on
\* to the reschedule test.
DecodeMiss(l, kind) ==
  /\ loops[l] = "decoding"
  /\ Reschedule(l)
  /\ ev' = Ev("decodeMiss", l, kind)
  /\ UNCHANGED <<isScanning, videoElement, srcObject, stream, deviceId, tracks,
                 gumCalls, callVars, imgVars, reqVars, listPc, callBudget, hookVars, delivered, raced>>

\* ---------------------------------------------------------------- stop()
\* stop() has no await before its last statement: it runs to completion.
StopBody ==
  /\ isScanning' = FALSE
  /\ loops' = ClearTimeout(scanInterval, loops)
  /\ scanInterval' = 0
  /\ tracks' = StopTracks(stream, tracks)
  /\ stream' = 0
  /\ srcObject' = StopSrcObject(videoElement, srcObject)

Stop ==
  /\ startPc = "idle"
  /\ StopBody
  /\ videoElement' = 0
  /\ ev' = Ev("stop", 0, ResetKind)
  /\ raced' = FALSE
  /\ UNCHANGED <<deviceId, gumCalls, startPc, hasOnError,
                 onErrorCalls, imgVars, reqVars, timerDelay, listPc, callBudget, hookVars, delivered>>

\* stop() called by a caller that does not wait for its pending start(): the
\* start is suspended at one of its awaits and goes on afterwards.
StopDuringStart ==
  /\ startPc \in {"acquiring", "waitReady", "playing"}
  /\ StopBody
  /\ videoElement' = 0
  /\ raced' = TRUE
  /\ ev' = Ev("stopDuringStart", 0, ResetKind)
  /\ UNCHANGED <<deviceId, gumCalls, startPc, hasOnError,
                 onErrorCalls, imgVars, reqVars, timerDelay, listPc, callBudget, hookVars, delivered>>

\* ---------------------------------------------------------------- switchCamera()
\* await this.stop(): the stop runs at once, the rest of switchCamera is a
\* microtask that runs before any timer or DOM event.
SwitchCameraStop ==
  /\ startPc = "idle"
  /\ CanStart
  /\ StopBody
  /\ videoElement' = 0
  /\ startPc' = "switching"
  /\ ev' = Ev("switchStop", 0, ResetKind)
  /\ raced' = FALSE
  /\ UNCHANGED <<deviceId, gumCalls, hasOnError,
                 onErrorCalls, imgVars, reqVars, timerDelay, listPc, callBudget, hookVars, delivered>>

\* The continuation: the deviceId constraint is merged into this.options and
\* start() is called.
SwitchCameraStart(d, cb) ==
  /\ startPc = "switching"
  /\ deviceId' = d
  /\ StartPrefix(cb, "switchStart", d, d)
  /\ UNCHANGED <<isScanning, srcObject, stream, scanInterval, tracks,
                 loops, imgVars, timerDelay, listPc, callBudget, hookVars, delivered, raced>>

\* ---------------------------------------------------------------- scanImage()
ScanImageCall ==
  /\ nImages < MaxImages
  /\ LET i == nImages + 1 IN
       /\ images' = [images EXCEPT ![i] = "reading"]
       /\ ev' = Ev("scanImage", i, "")
  /\ UNCHANGED <<session, deviceId, loops, gumCalls,
                 callVars, imgSettles, aux>>

\* FileReader 'load': the data URL is submitted to the engine.
ImageLoaded(i) ==
  /\ images[i] = "reading"
  /\ startPc # "switching"
  /\ images' = [images EXCEPT ![i] = "decoding"]
  /\ ev' = Ev("imageLoaded", i, "")
  /\ UNCHANGED <<session, deviceId, loops, gumCalls,
                 callVars, imgSettles, aux>>

\* How a scanImage() promise settles: one resolve() or reject() call.
ImageSettles(i, how, op, res) ==
  /\ images' = [images EXCEPT ![i] = how]
  /\ imgSettles' = [imgSettles EXCEPT ![i] = @ + 1]
  /\ ev' = Ev(op, i, res)
  /\ UNCHANGED <<session, deviceId, loops, gumCalls, callVars, aux>>

\* FileReader 'error': reject(new Error('Failed to read file')).
ImageReadError(i) ==
  /\ images[i] = "reading"
  /\ startPc # "switching"
  /\ ImageSettles(i, "rejected", "imageReadError", "Failed to read file")

\* The engine finds a code: resolve(createScanResult(result)).
ImageDecodeHit(i) ==
  /\ images[i] = "decoding"
  /\ ImageSettles(i, "resolved", "imageHit", "")

\* a scanImage() that resolves with an empty result when the engine finds nothing
ImageDecodeMissResolves(i) ==
  /\ images[i] = "decoding"
  /\ images' = [images EXCEPT ![i] = "resolved"]
  /\ imgSettles' = [imgSettles EXCEPT ![i] = @ + 1]
  /\ ev' = Ev("imageMiss", i, "")
  /\ UNCHANGED <<session, deviceId, loops, gumCalls, callVars, aux>>

\* The engine finds none (it throws): the catch rejects with the error.
ImageDecodeMiss(i) ==
  /\ images[i] = "decoding"
  /\ ImageSettles(i, "rejected", "imageMiss", "NotFoundException")

\* ---------------------------------------------------------------- Spec
\* ---------------------------------------------------------------- listCameras()
\* String.prototype.toLowerCase, on the letters the labels of DeviceInfos use
Lower(c) == CASE c = "F" -> "f" [] c = "B" -> "b" [] c = "C" -> "c" [] OTHER -> c
ToLowerCase(str) == [i \in DOMAIN str |-> Lower(str[i])]
\* String.prototype.includes
Includes(str, sub) ==
  \E i \in 0..(Len(str) - Len(sub)) : SubSeq(str, i + 1, i + Len(sub)) = sub
\* String.prototype.slice(0, n)
Slice0(str, n) == SubSeq(str, 1, IF Len(str) < n THEN Len(str) ELSE n)

\* a filter that lets every enumerated device through
VideoInputsUnfiltered(devices) == devices

\* devices.filter(d => d.kind === 'videoinput')
VideoInputs(devices) == SelectSeq(devices, LAMBDA d : d.kind = "videoinput")

\* the object .map() builds for one device
ToCameraDevice(device) ==
  [id |-> device.deviceId,
   label |-> IF device.label # <<>>
               THEN device.label
               ELSE <<"C", "a", "m", "e", "r", "a", " ">> \o Slice0(device.deviceId, 5),
   isFrontFacing |-> Includes(ToLowerCase(device.label), <<"f", "r", "o", "n", "t">>),
   isBackFacing |-> Includes(ToLowerCase(device.label), <<"b", "a", "c", "k">>)]

ListCamerasResult(devices) ==
  [i \in DOMAIN VideoInputs(devices) |-> ToCameraDevice(VideoInputs(devices)[i])]

\* listCameras() is called: enumerateDevices() is pending
ListCamerasCall ==
  /\ listPc = "idle"
  /\ listPc' = "pending"
  /\ ev' = Ev("listCameras", 0, "")
  /\ UNCHANGED <<session, deviceId, loops, gumCalls, callVars, imgVars, reqVars,
                 timerDelay, callBudget, hookVars, delivered, raced>>

\* enumerateDevices() resolves with devices: the promise resolves with the
\* filtered and mapped list
EnumerateOk(devices) ==
  /\ listPc = "pending"
  /\ listPc' = "idle"
  /\ ev' = Ev("listed", devices,
              [how |-> "resolved", cameras |-> ListCamerasResult(devices)])
  /\ UNCHANGED <<session, deviceId, loops, gumCalls, callVars, imgVars, reqVars,
                 timerDelay, callBudget, hookVars, delivered, raced>>

\* enumerateDevices() rejects, or navigator.mediaDevices is undefined and the
\* call throws: the bare catch returns []
EnumerateFail(why) ==
  /\ listPc = "pending"
  /\ listPc' = "idle"
  /\ ev' = Ev("listFailed", why, [how |-> "resolved", cameras |-> <<>>])
  /\ UNCHANGED <<session, deviceId, loops, gumCalls, callVars, imgVars, reqVars,
                 timerDelay, callBudget, hookVars, delivered, raced>>

\* ---------------------------------------------------------------- results
\* [A-Za-z0-9]
IsAlnum(c) == c \in (48..57) \cup (65..90) \cup (97..122)
\* [\x00-\x1F\x7F]
IsControl(c) == c \in (0..31) \cup {127}
\* what String.prototype.trim removes: WhiteSpace and LineTerminator
TrimSet ==
  (9..13) \cup {32, 160, 5760, 8232, 8233, 8239, 8287, 12288, 65279} \cup (8192..8202)

\* the length of the match of /^\][A-Za-z0-9]{1,2}/ (0: no match); the
\* quantifier is greedy
AimPrefixLen(code) ==
  IF Len(code) >= 2 /\ code[1] = 93 /\ IsAlnum(code[2])
    THEN IF Len(code) >= 3 /\ IsAlnum(code[3]) THEN 3 ELSE 2
    ELSE 0
\* .replace(/^\][A-Za-z0-9]{1,2}/, '')
StripAimPrefix(code) == SubSeq(code, AimPrefixLen(code) + 1, Len(code))
\* .replace(/[\x00-\x1F\x7F]/g, '')
RemoveControlChars(code) == SelectSeq(code, LAMBDA c : ~IsControl(c))
\* .trim()
Trim(code) ==
  LET keep == {i \in DOMAIN code : code[i] \notin TrimSet}
  IN IF keep = {} THEN <<>>
     ELSE SubSeq(code, CHOOSE i \in keep : \A j \in keep : i <= j,
                       CHOOSE i \in keep : \A j \in keep : i >= j)

\* a normalization that removes the control characters before it looks for
\* the prefix
NormalizeBarcodeControlsFirst(code) == Trim(StripAimPrefix(RemoveControlChars(code)))

NormalizeBarcode(code) == Trim(RemoveControlChars(StripAimPrefix(code)))

\* a result builder that normalizes whatever the option says
CreateScanResultAlways(rawText, autoNormalize) ==
  [text |-> NormalizeBarcode(rawText),
   rawText |-> rawText,
   wasNormalized |-> rawText # NormalizeBarcode(rawText)]

\* createScanResult(result), with rawText = result.getText() and autoNormalize
\* = this.options.autoNormalize; format and timestamp are left out
CreateScanResult(rawText, autoNormalize) ==
  LET normalizedText == IF autoNormalize THEN NormalizeBarcode(rawText) ELSE rawText
  IN [text |-> normalizedText,
      rawText |-> rawText,
      wasNormalized |-> rawText # normalizedText]

\* every variable but ev
allButEv == <<session, deviceId, loops, gumCalls, callVars, imgVars, aux>>

\* the engine decodes rawText and the scanner builds the result it hands to
\* onScan (or resolves scanImage() with)
Result(rawText, autoNormalize) ==
  /\ ev' = Ev("result", [rawText |-> rawText, autoNormalize |-> autoNormalize],
              CreateScanResult(rawText, autoNormalize))
  /\ UNCHANGED allButEv

\* the text of the result just built comes back as the engine's text (a code
\* that encodes it is scanned) and a result is built from it
Rescan ==
  /\ ev.op \in {"result", "rescanned"}
  /\ ev.id.autoNormalize
  /\ ev' = Ev("rescanned", [rawText |-> ev.res.text, autoNormalize |-> TRUE],
              CreateScanResult(ev.res.text, TRUE))
  /\ UNCHANGED allButEv

\* ---------------------------------------------------------------- rasterization
\* Lengths are exact rationals, held as integers in units of 1/200 pixel (the
\* code computes them in double precision).
\* (percent / 100) * frame
RegionSize200(percent, frame) == 2 * percent * frame
\* (frame - regionSize) / 2
RegionOrigin200(percent, frame) == (200 * frame - RegionSize200(percent, frame)) \div 2
\* canvas.width = v: the attribute is an unsigned long, a non-negative number
\* is truncated to an integer
ToUnsignedLong(v200) == v200 \div 200

\* the rasterization of one frame by scan(): the source rectangle drawImage()
\* reads and the size the canvas is given
Rasterization(targetBoxWidth, targetBoxHeight, videoWidth, videoHeight) ==
  IF targetBoxWidth # 0 /\ targetBoxHeight # 0
    THEN [sx200 |-> RegionOrigin200(targetBoxWidth, videoWidth),
          sy200 |-> RegionOrigin200(targetBoxHeight, videoHeight),
          sw200 |-> RegionSize200(targetBoxWidth, videoWidth),
          sh200 |-> RegionSize200(targetBoxHeight, videoHeight),
          canvasWidth |-> ToUnsignedLong(RegionSize200(targetBoxWidth, videoWidth)),
          canvasHeight |-> ToUnsignedLong(RegionSize200(targetBoxHeight, videoHeight))]
    ELSE [sx200 |-> 0, sy200 |-> 0,
          sw200 |-> 200 * videoWidth, sh200 |-> 200 * videoHeight,
          canvasWidth |-> videoWidth, canvasHeight |-> videoHeight]

\* one loop step rasterizes a frame
Rasterize(targetBoxWidth, targetBoxHeight, videoWidth, videoHeight) ==
  /\ ev' = Ev("rasterize",
              [targetBoxWidth |-> targetBoxWidth, targetBoxHeight |-> targetBoxHeight,
               videoWidth |-> videoWidth, videoHeight |-> videoHeight],
              Rasterization(targetBoxWidth, targetBoxHeight, videoWidth, videoHeight))
  /\ UNCHANGED allButEv

\* ---------------------------------------------------------------- specifications
SessionNext ==
  \/ \E cb \in BOOLEAN : StartCall(cb)
  \/ \E ready \in BOOLEAN : AcquireOk(ready)
  \/ \E e \in GumRejections : AcquireFail(e)
  \/ LoadedMetadata
  \/ VideoTimeout
  \/ \E e \in PlayRejections : PlayFail(e)
  \/ PlayOk
  \/ \E l \in LoopIds : TimerFire(l)
  \/ \E l \in LoopIds, throws \in BOOLEAN : DecodeHit(l, throws)
  \/ \E l \in LoopIds, kind \in MissKinds : DecodeMiss(l, kind)
  \/ Stop
  \/ SwitchCameraStop
  \/ \E d \in DeviceIds, cb \in BOOLEAN : SwitchCameraStart(d, cb)

ImageNext ==
  \/ ScanImageCall
  \/ \E i \in ImageIds : ImageLoaded(i)
  \/ \E i \in ImageIds : ImageReadError(i)
  \/ \E i \in ImageIds : ImageDecodeHit(i)
  \/ \E i \in ImageIds : ImageDecodeMiss(i)

ListNext ==
  \/ ListCamerasCall
  \/ \E devices \in Enumerations : EnumerateOk(devices)
  \/ \E why \in EnumerateFailures : EnumerateFail(why)

\* the camera session and scanImage()
Next == SessionNext \/ ImageNext

Spec == Init /\ [][Next]_vars

\* the camera session alone, followed for one call more
SpecSwitch == InitWith(MaxStarts + 1) /\ [][SessionNext]_vars

\* the camera session with callers that call stop() while a start() is pending
NextRace == SessionNext \/ StopDuringStart

SpecRace == Init /\ [][NextRace]_vars

\* the session of a caller that never stops, with an engine that never finds a
\* code: start() (repeated after a failure), the timer callbacks and the
\* decodes that miss.  The event loop runs every timer that is due and the
\* engine settles every decode: weak fairness of both, for each loop.
NextLive ==
  \/ \E cb \in BOOLEAN : StartCall(cb)
  \/ \E ready \in BOOLEAN : AcquireOk(ready)
  \/ \E e \in GumRejections : AcquireFail(e)
  \/ LoadedMetadata
  \/ VideoTimeout
  \/ \E e \in PlayRejections : PlayFail(e)
  \/ PlayOk
  \/ \E l \in LoopIds : TimerFire(l)
  \/ \E l \in LoopIds, kind \in MissKinds : DecodeMiss(l, kind)

SpecLive ==
  /\ Init
  /\ [][NextLive]_vars
  /\ \A l \in LoopIds : WF_vars(TimerFire(l))
  /\ \A l \in LoopIds : WF_vars(\E kind \in MissKinds : DecodeMiss(l, kind))

\* listCameras() beside a session that starts, misses, retries and stops
NextList == NextLive \/ Stop \/ ListNext

SpecList == Init /\ [][NextList]_vars

\* results built from decoded texts
NextNorm ==
  \/ \E rawText \in RawTexts, autoNormalize \in BOOLEAN : Result(rawText, autoNormalize)
  \/ Rescan

SpecNorm == Init /\ [][NextNorm]_vars

\* frames rasterized by the loop step
NextRegion ==
  \E p \in TargetPercents, q \in TargetPercents, w \in FrameWidths, h \in FrameHeights :
    Rasterize(p, q, w, h)

SpecRegion == Init /\ [][NextRegion]_vars

\* ---------------------------------------------------------------- properties
StartFailOps == {"acquireFail", "timeout", "playFail"}
StopOps == {"stop", "switchStop"}
ImageOps == {"scanImage", "imageLoaded", "imageReadError", "imageHit", "imageMiss"}
AcquisitionErrors == {ToError(e) : e \in GumRejections}

\* C1: with every start(), stop() and switchCamera() awaited by the caller, at
\* most one decode submission of the scanning loop is outstanding at any instant.
C1_OneLoopDecode == Cardinality(LoopDecodes) <= 1

\* C2: when stop() is called while a loop decode is in flight, the stream held at
\* that moment has its tracks stopped by that stop(); and when a loop decode
\* resolves as a miss while the session is stopped, that loop ends: it arms no
\* timer, submits no decode and leaves the timer handle alone.
C2_StopDuringDecode ==
  [][/\ (ev'.op = "stop" /\ LoopDecodes # {} /\ stream # 0)
          => (tracks'[stream] = "stopped" /\ stream' = 0)
     /\ \A l \in LoopIds :
          (ev'.op = "decodeMiss" /\ ev'.id = l /\ loops[l] = "decoding" /\ ~isScanning)
            => /\ loops'[l] = "ended"
               /\ scanInterval' = scanInterval
               /\ PendingTimers' = PendingTimers
               /\ LoopDecodes' = LoopDecodes \ {l}]_vars

\* C2 witness: a loop decode has just resolved as a miss after stop(), the loop
\* has ended and no stream is live.
C2_Witness ==
  /\ ev.op = "decodeMiss"
  /\ ~isScanning
  /\ startPc = "idle"
  /\ loops[ev.id] = "ended"
  /\ gumCalls = 1
  /\ tracks[1] = "stopped"

\* C3: when stop() returns, isScanning is false, no stream is held, no surface is
\* attached and no retry timer is pending.
C3_StopLeavesNothing ==
  ev.op = "stop"
    => /\ ~isScanning
       /\ stream = 0
       /\ videoElement = 0
       /\ srcObject = 0
       /\ scanInterval = 0
       /\ PendingTimers = {}

\* C4: start() called while isScanning is true is rejected in the same step with
\* the 'already running' error, makes no getUserMedia() request, calls no error
\* callback and changes nothing of the session or of the loops.
C4_StartWhileScanning ==
  [][(ev'.op = "start" /\ isScanning)
       => /\ ev'.res = "Scanner is already running"
          /\ startPc' = "idle"
          /\ gumCalls' = gumCalls
          /\ onErrorCalls' = 0
          /\ UNCHANGED <<session, loops, deviceId>>]_vars

\* C4 witness: a start() has just been rejected while a session is scanning.
C4_Witness ==
  /\ ev.op = "start"
  /\ ev.res = "Scanner is already running"
  /\ isScanning
  /\ stream # 0
  /\ gumCalls = 1

\* C5: when start() fails after the stream was acquired (ev.id is that stream),
\* the stream's tracks are stopped and this.stream no longer refers to it.
C5_FailedStartReleases ==
  (ev.op \in {"timeout", "playFail"})
    => (tracks[ev.id] = "stopped" /\ stream # ev.id)

\* C6: a start() that fails while starting settles in that step with the error
\* thrown, leaves isScanning false, starts no loop, has called the error callback
\* once if one was given and never otherwise; the readiness timeout's error is
\* none of the errors an acquisition failure is reported with.
C6_StartFailure ==
  [][(ev'.op \in StartFailOps)
       => /\ ~isScanning'
          /\ loops' = loops
          /\ startPc' = "idle"
          /\ onErrorCalls' = (IF hasOnError THEN 1 ELSE 0)
          /\ (ev'.op = "timeout")
               => (ev'.res = "Video timeout" /\ ev'.res \notin AcquisitionErrors)
          /\ (ev'.op = "acquireFail") => (ev'.res \in AcquisitionErrors)]_vars

\* C6 witness: the readiness timeout has just failed a start() that had an error
\* callback.
C6_Witness ==
  /\ ev.op = "timeout"
  /\ ev.res = "Video timeout"
  /\ hasOnError
  /\ onErrorCalls = 1
  /\ ~isScanning
  /\ startPc = "idle"

\* C7: after a loop's decode submission succeeded and onScan was invoked, that
\* loop has no retry timer armed and no decode submitted.
C7_HitEndsLoop ==
  ev.op = "decodeHit" => loops[ev.id] \notin {"timer", "decoding"}

\* C8: a successful decode changes neither isScanning nor the stream, its tracks
\* or the attached surface; isScanning goes from true to false only in stop();
\* and a start() issued while scanning after a loop delivered its hit is rejected
\* as already running.
C8_NeverStopsItself ==
  [][/\ (ev'.op = "decodeHit")
          => UNCHANGED <<isScanning, stream, tracks, srcObject, videoElement>>
     /\ (isScanning /\ ~isScanning') => (ev'.op \in StopOps)
     /\ (ev'.op = "start" /\ isScanning /\ \E l \in LoopIds : loops[l] = "hit")
          => (ev'.res = "Scanner is already running" /\ isScanning')]_vars

\* C8 witness: after a hit and before any stop(), the session is still scanning
\* with its stream live and a start() has just been rejected.
C8_Witness ==
  /\ ev.op = "start"
  /\ ev.res = "Scanner is already running"
  /\ gumCalls = 1
  /\ loops[1] = "hit"
  /\ isScanning
  /\ stream = 1
  /\ tracks[1] = "live"

\* C9: the engine never has two decode calls outstanding, counting the loops'
\* submissions and those of scanImage().
C9_OneEngineDecode == Cardinality(LoopDecodes) + Cardinality(ImageDecodes) <= 1

\* C10: no step of a scanImage() call changes the session, the timer handle, the
\* loops or a pending start; a miss and an unreadable file reject the call; and
\* resolve()/reject() has been called once for a settled call and never for an
\* unsettled one.
C10_ScanImageFrame ==
  [][/\ (ev'.op \in ImageOps) => UNCHANGED <<session, loops, deviceId, gumCalls, callVars>>
     /\ (ev'.op \in {"imageMiss", "imageReadError"}) => (images'[ev'.id] = "rejected")
     /\ \A i \in ImageIds :
          imgSettles'[i] = (IF images'[i] \in {"resolved", "rejected"} THEN 1 ELSE 0)]_vars

\* C10 witness: a scanImage() has just been rejected for a file without a code
\* while the scanning loop has a decode in flight.
C10_Witness ==
  /\ ev.op = "imageMiss"
  /\ images[ev.id] = "rejected"
  /\ imgSettles[ev.id] = 1
  /\ isScanning
  /\ LoopDecodes # {}

\* ---------------------------------------------------------------- C11
LoopOps == {"timerFire", "decodeHit", "decodeMiss"}

\* C11: no step of the scan loop (a timer callback, a decode that found a code,
\* a decode that missed or threw, an onScan that threw) calls the onError
\* callback given to start(), and every such step runs to its end: it leaves
\* the closure submitted to the engine, waiting on its retry timer, or finished
\* (after a delivery, or because scanning was stopped).
C11_MissNeverSurfaced ==
  [][ev'.op \in LoopOps =>
       /\ onErrorCalls' = onErrorCalls
       /\ loops'[ev'.id] \in {"decoding", "timer", "hit", "ended"}]_vars

\* an engine exception was swallowed by a session that has an onError callback,
\* and the retry timer is armed
C11_Witness ==
  /\ ev.op = "decodeMiss"
  /\ ev.res = "engineError"
  /\ hasOnError
  /\ onErrorCalls = 0
  /\ isScanning
  /\ loops[ev.id] = "timer"

\* ---------------------------------------------------------------- C12
ListOps == {"listCameras", "listed", "listFailed"}

\* C12: listCameras() always resolves, never rejects; when the enumeration
\* fails it resolves with the empty list, otherwise with one entry for each
\* enumerated device of kind videoinput and no other entry, in enumeration
\* order; and none of its steps changes isScanning, the held stream, the
\* attached surface, the retry timer, the tracks or the loops.
C12_ListCameras ==
  [][ev'.op \in ListOps =>
       /\ UNCHANGED <<isScanning, stream, videoElement, srcObject, scanInterval,
                      tracks, loops>>
       /\ ev'.op # "listCameras" => ev'.res.how = "resolved"
       /\ ev'.op = "listFailed" => ev'.res.cameras = <<>>
       /\ ev'.op = "listed" =>
            LET devices == ev'.id
                cameras == ev'.res.cameras
                video == {j \in DOMAIN devices : devices[j].kind = "videoinput"}
            IN /\ Len(cameras) = Cardinality(video)
               /\ \A j \in video :
                    cameras[Cardinality({k \in video : k <= j})].id = devices[j].deviceId]_vars

\* a list with an audio device and a camera was enumerated while scanning, and
\* the one camera was returned
C12_Witness ==
  /\ ev.op = "listed"
  /\ isScanning
  /\ stream # 0
  /\ Len(ev.id) = 2
  /\ ev.id[1].kind = "audioinput"
  /\ ev.id[2].kind = "videoinput"
  /\ Len(ev.res.cameras) = 1

\* ---------------------------------------------------------------- C13
ResultOps == {"result", "rescanned"}

\* C13: normalization is idempotent: a result built, with autoNormalize on,
\* from the text of a normalized result has that same text and reports
\* wasNormalized = FALSE.
C13_NormalizeIdempotent ==
  ev.op = "rescanned" => ev.res.text = ev.id.rawText /\ ~ev.res.wasNormalized

\* ---------------------------------------------------------------- C14
\* The three passes, each stated character by character.
RECURSIVE C14_DropControls(_)
C14_DropControls(t) ==
  IF t = <<>> THEN <<>>
  ELSE IF Head(t) <= 31 \/ Head(t) = 127 THEN C14_DropControls(Tail(t))
  ELSE <<Head(t)>> \o C14_DropControls(Tail(t))

RECURSIVE C14_DropLeft(_)
C14_DropLeft(t) ==
  IF t # <<>> /\ Head(t) \in TrimSet THEN C14_DropLeft(Tail(t)) ELSE t

RECURSIVE C14_DropRight(_)
C14_DropRight(t) ==
  IF t # <<>> /\ t[Len(t)] \in TrimSet THEN C14_DropRight(SubSeq(t, 1, Len(t) - 1))
  ELSE t

C14_Letter(c) == (c >= 48 /\ c <= 57) \/ (c >= 65 /\ c <= 90) \/ (c >= 97 /\ c <= 122)

\* one leading AIM prefix taken off: ']' and the one or two alphanumerics
\* after it (two when there are two)
C14_StripOne(t) ==
  IF Len(t) >= 3 /\ t[1] = 93 /\ C14_Letter(t[2]) /\ C14_Letter(t[3])
    THEN Tail(Tail(Tail(t)))
  ELSE IF Len(t) >= 2 /\ t[1] = 93 /\ C14_Letter(t[2]) THEN Tail(Tail(t))
  ELSE t

\* C14: with autoNormalize on, the text of a result is the raw text with one
\* leading AIM prefix stripped, then the control characters 0x00-0x1F and 0x7F
\* removed, then trimmed, in that order; rawText is the raw text; and for
\* "]C1\x00ABC123 " the text is "ABC123" and wasNormalized is TRUE.
C14_NormalizeOrder ==
  ev.op \in ResultOps /\ ev.id.autoNormalize =>
    /\ ev.res.text = C14_DropRight(C14_DropLeft(C14_DropControls(C14_StripOne(ev.id.rawText))))
    /\ ev.res.rawText = ev.id.rawText
    /\ ev.id.rawText = ExampleDirty =>
         ev.res.text = <<65, 66, 67, 49, 50, 51>> /\ ev.res.wasNormalized

\* NUL, ']', 'A' was decoded: the prefix is not at the start, so it stays, and
\* the NUL is removed
C14_Witness ==
  /\ ev.op = "result"
  /\ ev.id.autoNormalize
  /\ ev.id.rawText = <<0, 93, 65>>
  /\ ev.res.text = <<93, 65>>

\* ---------------------------------------------------------------- C15
\* no AIM prefix, no control character, no white space at either end
C15_Clean(t) ==
  /\ ~(Len(t) >= 2 /\ t[1] = 93 /\ C14_Letter(t[2]))
  /\ \A i \in DOMAIN t : t[i] > 31 /\ t[i] # 127
  /\ t # <<>> => t[1] \notin TrimSet /\ t[Len(t)] \notin TrimSet

\* C15: in every result rawText is the engine's text and wasNormalized is TRUE
\* exactly when text differs from rawText; with autoNormalize off text is
\* rawText and wasNormalized is FALSE; and for a raw text with no AIM prefix, no
\* control character and no white space at either end text is rawText and
\* wasNormalized is FALSE.
C15_ScanResult ==
  ev.op \in ResultOps =>
    /\ ev.res.rawText = ev.id.rawText
    /\ ev.res.wasNormalized <=> ev.res.text # ev.res.rawText
    /\ ~ev.id.autoNormalize => ev.res.text = ev.id.rawText /\ ~ev.res.wasNormalized
    /\ C15_Clean(ev.id.rawText) => ev.res.text = ev.id.rawText /\ ~ev.res.wasNormalized

\* a text with a prefix was decoded with autoNormalize off and came back as it
\* was
C15_Witness ==
  /\ ev.op = "result"
  /\ ~ev.id.autoNormalize
  /\ ev.id.rawText = ExampleDirty
  /\ ev.res.text = ExampleDirty
  /\ ~ev.res.wasNormalized

\* ---------------------------------------------------------------- C16
\* C16: with a target region of p% by q% configured on a W x H frame, the step
\* rasterizes the rectangle of size p*W/100 by q*H/100 whose margins are equal
\* on both sides (origin ((W - p*W/100)/2, (H - q*H/100)/2)), and the canvas is
\* given exactly that size; 50%/50% on 1000x800 is 500x400 at (250, 200); and
\* for p, q <= 100 the rectangle lies inside the frame.
C16_RegionRectangle ==
  ev.op = "rasterize" /\ ev.id.targetBoxWidth > 0 /\ ev.id.targetBoxHeight > 0 =>
    LET p == ev.id.targetBoxWidth
        q == ev.id.targetBoxHeight
        W == ev.id.videoWidth
        H == ev.id.videoHeight
        r == ev.res
    IN /\ 100 * r.sw200 = 200 * p * W
       /\ 100 * r.sh200 = 200 * q * H
       /\ 2 * r.sx200 + r.sw200 = 200 * W
       /\ 2 * r.sy200 + r.sh200 = 200 * H
       /\ 200 * r.canvasWidth = r.sw200
       /\ 200 * r.canvasHeight = r.sh200
       /\ p = 50 /\ q = 50 /\ W = 1000 /\ H = 800 =>
            /\ r.sw200 = 200 * 500 /\ r.sh200 = 200 * 400
            /\ r.sx200 = 200 * 250 /\ r.sy200 = 200 * 200
       /\ p <= 100 /\ q <= 100 =>
            /\ r.sx200 >= 0 /\ r.sx200 + r.sw200 <= 200 * W
            /\ r.sy200 >= 0 /\ r.sy200 + r.sh200 <= 200 * H

\* ---------------------------------------------------------------- C17
\* streams whose tracks are live
OpenStreams == {s \in StreamIds : tracks[s] = "live"}

\* C17: switchCamera(deviceId) by a caller that awaits each call: its stop part
\* stops the tracks of the stream held before any request is made; its start
\* part never fails with 'Scanner is already running' and requests a stream
\* with the deviceId-exact constraint; and when it resolves the scanner is
\* scanning and exactly one stream is open, the one it holds, acquired with
\* that constraint.
C17_SwitchCamera ==
  [][/\ ev'.op = "switchStop" =>
          /\ stream # 0 => tracks'[stream] = "stopped"
          /\ gumCalls' = gumCalls
     /\ ev'.op = "switchStart" =>
          /\ ev'.res # "Scanner is already running"
          /\ gumCalls' = gumCalls + 1
          /\ lastRequest' = callDevice'
     /\ ev'.op = "started" /\ ev'.res # "" =>
          /\ isScanning'
          /\ stream' # 0
          /\ OpenStreams' = {stream'}
          /\ lastRequest' = ev'.res]_vars

\* ---------------------------------------------------------------- C18
\* C18: the options resolved by the constructor never change: the deviceId
\* constraint in this.options, which getOptions() reports, stays unset, and a
\* start() that gets past its precondition requests a stream without one.
C18_OptionsImmutable ==
  /\ deviceId = ""
  /\ ev.op = "start" /\ ev.res = "" => lastRequest = ""

\* ---------------------------------------------------------------- C19
\* C19: when stop() was called while a start() was pending, then once that
\* start() has settled too the scanner is not scanning and holds no stream
\* with live tracks.
C19_StaleStart ==
  raced /\ startPc = "idle" =>
    /\ ~isScanning
    /\ stream = 0 \/ tracks[stream] # "live"

\* ---------------------------------------------------------------- C20
\* C20: while no stop() is called and every decode misses or throws, with the
\* timer and the decode completion weakly fair, a loop that has submitted a
\* frame gets its retry timer armed and a loop whose timer is armed submits a
\* frame again, for ever; a retry timer is armed only by the step in which the
\* loop's decode settled, with a delay of 1000 / fps ms, and a frame is
\* submitted only by a loop that has no decode in flight.
C20_LoopLiveness ==
  /\ \A l \in LoopIds : (loops[l] = "decoding") ~> (loops[l] = "timer")
  /\ \A l \in LoopIds : (loops[l] = "timer") ~> (loops[l] = "decoding")
  /\ [][\A l \in LoopIds :
          /\ loops[l] # "timer" /\ loops'[l] = "timer" =>
               /\ loops[l] = "decoding"
               /\ ev'.op = "decodeMiss" /\ ev'.id = l
               /\ 1000 = Fps * timerDelay'
          /\ loops[l] # "decoding" /\ loops'[l] = "decoding" =>
               loops[l] \in {"none", "timer"}]_vars

\* a retry: the timer armed after a miss has fired and the loop has submitted
\* the next frame
C20_Witness ==
  /\ ev.op = "timerFire"
  /\ isScanning
  /\ loops[ev.id] = "decoding"
  /\ timerDelay = ScanIntervalMs

\* ---------------------------------------------------------------- C21
\* C21: with every start(), stop() and switchCamera() awaited by the caller, a
\* retry timer is pending only while isScanning is true, and no retry timer is
\* pending while a decode submission of a scanning loop is in flight.
C21_TimerOnlyWhileScanning ==
  PendingTimers # {} => isScanning /\ LoopDecodes = {}

\* ---------------------------------------------------------------- C22
\* the loops of a session that stop() has ended: every loop begun but the
\* latest one while isScanning is still true
StoppedLoops == {l \in LoopIds : loops[l] # "none" /\ ~(isScanning /\ l = nLoops)}

\* C22: once stop() has completed, no loop of the stopped session invokes
\* onScan, also when a decode that was in flight at the stop resolves with a
\* code afterwards.
C22_NoScanAfterStop ==
  [][ev'.op = "decodeHit" => ev'.id \notin StoppedLoops]_vars

\* ---------------------------------------------------------------- C23
\* C23: with every call awaited, at most one acquired stream has live tracks
\* at any instant, and when stop() returns no stream ever acquired has live
\* tracks.
C23_NoStreamLeak ==
  /\ Cardinality(OpenStreams) <= 1
  /\ ev.op = "stop" => OpenStreams = {}

\* ---------------------------------------------------------------- C25
\* C25: stop(), alone or as the first part of switchCamera(), never calls
\* reader.reset() while a decode submitted by a scanning loop or by scanImage()
\* is outstanding.
C25_NoResetDuringDecode ==
  ev.op \in StopOps => ev.res # "resetDuringDecode"

\* ---------------------------------------------------------------- C24
\* C24: between a start() that resolves and the next stop(), the loop of that
\* session invokes onScan at most once, whether the callback returns or
\* throws and whatever the engine answers.
C24_AtMostOneScan ==
  [][ev'.op = "decodeHit" /\ ev'.id \notin StoppedLoops => ev'.id \notin delivered]_vars

\* ------------------------------------------------- the useBarcodeScanner hook
\* The hook owns one BarcodeScanner and drives it through startScanning,
\* stopScanning, switchCamera and the autoStart effect. It always hands the
\* core its own handleError, which sets the error state and forwards to the
\* user's options.onError; so onErrorCalls counts the forwards made by the core.

\* A hook call whose core promise has settled: its continuation is the next
\* microtask, nothing else runs before it.
HookDue == hookPc # "idle" /\ startPc = "idle"

\* No hook call and no core call is pending.
HookSettled == hookPc = "idle" /\ startPc = "idle"

\* handleError(err): setError(err); options.onError?.(err) -- one more forward.
HandleError(n) == n + 1

\* The body of startScanning(). Without a mounted video element it throws
\* before the try block: no handler runs. Otherwise it awaits core start().
StartScanning(mounted, cmd) ==
  /\ lastCmd' = cmd
  /\ raced' = FALSE
  /\ IF mounted
       THEN /\ StartPrefix(TRUE, "start", "", deviceId)
            /\ hookPc' = "start"
            /\ UNCHANGED <<isScanning, srcObject, stream, scanInterval, deviceId,
                           tracks, loops, imgVars, timerDelay, listPc, callBudget,
                           delivered, hookIsScanning>>
       ELSE /\ ev' = Ev("hookStartFailed", 0, 0)
            /\ UNCHANGED <<session, deviceId, loops, gumCalls, callVars, imgVars,
                           reqVars, timerDelay, listPc, callBudget, delivered,
                           hookIsScanning, hookPc>>

\* The body of stopScanning(): core stop() runs to its end synchronously, its
\* promise is fulfilled, and the continuation sets the hook flag.
StopScanning(cmd) ==
  /\ lastCmd' = cmd
  /\ StopBody
  /\ videoElement' = 0
  /\ hookIsScanning' = FALSE
  /\ ev' = Ev("hookStopped", 0, ResetKind)
  /\ raced' = FALSE
  /\ UNCHANGED <<deviceId, gumCalls, callVars, imgVars, reqVars, timerDelay,
                 listPc, callBudget, delivered, hookPc>>

\* The component calls startScanning() while nothing is pending.
HookStartScanning(mounted) ==
  /\ HookSettled
  /\ StartScanning(mounted, "call")
  /\ UNCHANGED autoStart

\* The continuation of startScanning() after core start() settled: on success
\* setIsScanning(true); on rejection the catch block calls handleError(error)
\* and rethrows.
HookStartSettles ==
  /\ hookPc = "start" /\ startPc = "idle"
  /\ hookPc' = "idle"
  /\ IF ev.op = "started"
       THEN /\ hookIsScanning' = TRUE
            /\ ev' = Ev("hookStarted", 0, "")
       ELSE /\ ev' = Ev("hookStartFailed", 0, HandleError(onErrorCalls))
            /\ UNCHANGED hookIsScanning
  /\ UNCHANGED <<session, deviceId, loops, gumCalls, callVars, imgVars, reqVars,
                 timerDelay, listPc, callBudget, delivered, raced, autoStart, lastCmd>>

\* The component calls stopScanning() while nothing is pending.
HookStopScanning ==
  /\ HookSettled
  /\ StopScanning("call")
  /\ UNCHANGED autoStart

\* The component calls switchCamera(d): core switchCamera() runs its stop().
HookSwitchCamera ==
  /\ HookSettled /\ CanStart
  /\ StopBody
  /\ videoElement' = 0
  /\ startPc' = "switching"
  /\ hookPc' = "switch"
  /\ lastCmd' = "call"
  /\ ev' = Ev("switchStop", 0, ResetKind)
  /\ raced' = FALSE
  /\ UNCHANGED <<deviceId, gumCalls, hasOnError, onErrorCalls, imgVars, reqVars,
                 timerDelay, listPc, callBudget, delivered, hookIsScanning, autoStart>>

\* The continuation of the hook's switchCamera(): setSelectedCamera and
\* setError(null) on success, setError(error) and rethrow on rejection. Neither
\* branch touches the hook's isScanning, neither calls handleError.
HookSwitchSettles ==
  /\ hookPc = "switch" /\ startPc = "idle"
  /\ hookPc' = "idle"
  /\ ev' = Ev(IF ev.op = "started" THEN "hookSwitched" ELSE "hookSwitchFailed",
              0, onErrorCalls)
  /\ UNCHANGED <<session, deviceId, loops, gumCalls, callVars, imgVars, reqVars,
                 timerDelay, listPc, callBudget, delivered, raced, hookIsScanning,
                 autoStart, lastCmd>>

\* The autoStart effect after a render in which options.autoStart became true:
\* it calls startScanning() when the video is mounted and the hook's flag is
\* false. The component renders autoStart = true only while no call is pending.
AutoStartOn(mounted) ==
  /\ HookSettled /\ ~autoStart
  /\ autoStart' = TRUE
  /\ IF mounted /\ ~hookIsScanning
       THEN StartScanning(TRUE, "autoOn")
       ELSE /\ lastCmd' = "autoOn"
            /\ ev' = Ev("effect", 0, "")
            /\ UNCHANGED <<session, deviceId, loops, gumCalls, callVars, imgVars,
                           reqVars, timerDelay, listPc, callBudget, delivered, raced,
                           hookIsScanning, hookPc>>

\* The autoStart effect after a render in which options.autoStart became
\* false: it calls stopScanning() when the hook's flag is true and does
\* nothing otherwise, also while a start is pending.
AutoStartOff ==
  /\ ~HookDue /\ hookPc \in {"idle", "start"} /\ autoStart
  /\ autoStart' = FALSE
  /\ IF hookIsScanning
       THEN StopScanning("autoOff")
       ELSE /\ lastCmd' = "autoOff"
            /\ ev' = Ev("effect", 0, "")
            /\ UNCHANGED <<session, deviceId, loops, gumCalls, callVars, imgVars,
                           reqVars, timerDelay, listPc, callBudget, delivered, raced,
                           hookIsScanning, hookPc>>

\* The hook and the scanner it owns: the scanner's own steps run between the
\* hook's calls, a settled call's continuation runs before anything else.
NextHook ==
  \/ \E mounted \in BOOLEAN : HookStartScanning(mounted)
  \/ HookStartSettles
  \/ HookStopScanning
  \/ HookSwitchCamera
  \/ HookSwitchSettles
  \/ \E mounted \in BOOLEAN : AutoStartOn(mounted)
  \/ AutoStartOff
  \/ ~HookDue /\ \E ready \in BOOLEAN : AcquireOk(ready)
  \/ ~HookDue /\ \E e \in GumRejections : AcquireFail(e)
  \/ ~HookDue /\ LoadedMetadata
  \/ ~HookDue /\ VideoTimeout
  \/ ~HookDue /\ \E e \in PlayRejections : PlayFail(e)
  \/ ~HookDue /\ PlayOk
  \/ ~HookDue /\ \E l \in LoopIds : TimerFire(l)
  \/ ~HookDue /\ \E l \in LoopIds, throws \in BOOLEAN : DecodeHit(l, throws)
  \/ ~HookDue /\ \E l \in LoopIds, kind \in MissKinds : DecodeMiss(l, kind)
  \/ ~HookDue /\ \E d \in DeviceIds : SwitchCameraStart(d, TRUE)

SpecHook == Init /\ [][NextHook]_vars

HookFailOps == {"hookStartFailed"}

\* C26: whenever no hook call is pending -- every startScanning, stopScanning
\* and switchCamera of the hook has settled, with success or with an error --
\* the hook's isScanning equals the core's getIsScanning().
C26_HookFlagAgrees ==
  HookSettled => hookIsScanning = isScanning

\* C27: once options.autoStart has gone from true to false and every call has
\* settled, the core scanner is stopped, also when the change came while the
\* start was pending. Stated for the scanning flag alone: a stream that a
\* failed start left open is the subject of C5, and a scanner that is still
\* scanning holds its stream.
C27_AutoStartOffStops ==
  lastCmd = "autoOff" /\ HookSettled => ~isScanning

\* C28: a startScanning() of the hook that fails has invoked the user's
\* onError exactly once for that failure.
C28_OnErrorOnce ==
  ev.op \in HookFailOps => ev.res = 1
====
